---- MODULE Spec2Model ----
(***************************************************************************)
(* npmclean: the Scanner (traversal, detector chain, target planning) and  *)
(* the Cleaner (confirmation, concurrent per-project removal, shared       *)
(* CleanResults), modelled from src/src/scanner.rs, src/src/cleaner.rs,    *)
(* src/src/project/*.rs and src/src/utils/fs_utils.rs; main with the       *)
(* plugin hooks and the final summary (src/src/main.rs, src/src/plugins,   *)
(* src/src/cli.rs); and the loading of the configuration (src/src/config). *)
(*                                                                         *)
(* A path is a sequence of components; an absolute path starts with "/".   *)
(* A glob pattern is a sequence of tokens: a literal component, "*", "**"  *)
(* or "[" (an unclosed class, which globset refuses to compile).           *)
(***************************************************************************)
EXTENDS Integers, Sequences, FiniteSets, TLC

VARIABLES
    config,     \* the Config snapshot of this run (config/schema.rs)
    kind,       \* per candidate directory: which package.json / config files it holds
    dirs,       \* the directories that exist on disk
    phase,      \* position of main / Cleaner::clean
    projects,   \* Vec<Project> returned by Scanner::scan
    results,    \* the shared CleanResults behind Arc<Mutex<..>>
    pc,         \* per project task of the parallel map: position in clean_project
    idx,        \* per project task: index of the target being processed
    tstate,     \* per project, per target: Planned / Skipped / Simulated / Cleaned / Failed
    answer,     \* the line read from stdin by confirm_cleaning
    dirs0,      \* the directories that existed when clean was called
    hooks,      \* the hook types handed to PluginRegistry::execute_hook, in order
    summary,    \* the lines display_clean_results printed
    args,       \* the CliArgs of load_config
    files       \* the user and the project configuration file, as written

vars ==
    <<config, kind, dirs, phase, projects, results, pc, idx, tstate, answer, dirs0,
      hooks, summary, args, files>>

----------------------------------------------------------------------------
(* Bounds of the model *)

\* largest max_depth the configurations set
MaxDepthBound == 1

----------------------------------------------------------------------------
(* Paths *)

Root == <<"/", "w">>
ProjA == Root \o <<"a">>
ProjB == Root \o <<"b">>

\* a directory below project a, and the node_modules directory of project a
Nested == ProjA \o <<"sub">>
Vendored == ProjA \o <<"node_modules">>

\* the directories that may hold a package.json
Candidates == {Root, ProjA, ProjB, Nested, Vendored}

IsPrefix(p, q) == Len(p) <= Len(q) /\ SubSeq(q, 1, Len(p)) = p

IsProperDescendant(q, p) == IsPrefix(p, q) /\ Len(q) > Len(p)

\* PathBuf::join: an absolute argument replaces the base, an empty one keeps it
Join(base, rel) ==
    IF rel # <<>> /\ rel[1] = "/" THEN rel ELSE base \o rel

Last(p) == p[Len(p)]

RECURSIVE SetToSeq(_)
SetToSeq(S) ==
    IF S = {} THEN <<>>
    ELSE LET x == CHOOSE y \in S : \A z \in S : Len(y) <= Len(z)
         IN <<x>> \o SetToSeq(S \ {x})

RECURSIVE SeqSum(_)
SeqSum(s) == IF s = <<>> THEN 0 ELSE Head(s) + SeqSum(Tail(s))

Range(s) == {s[i] : i \in 1..Len(s)}

----------------------------------------------------------------------------
(* The file system as the program observes it *)

NoInfo == [present |-> FALSE, dependencies |-> {}, dev_dependencies |-> {}]

\* what a directory of each kind holds: has_json (package.json exists),
\* parses (it is readable JSON), its dependency keys, and the config files;
\* nothing can be seen inside a directory of kind "locked"
Manifest(k) ==
    CASE k = "next"    -> [has_json |-> TRUE, parses |-> TRUE, deps |-> {"next", "react"},
                           dev |-> {}, cfg |-> {}]
      [] k = "nextdev" -> [has_json |-> TRUE, parses |-> TRUE, deps |-> {},
                           dev |-> {"next"}, cfg |-> {}]
      [] k = "nextcfg" -> [has_json |-> TRUE, parses |-> TRUE, deps |-> {},
                           dev |-> {}, cfg |-> {"next.config.js"}]
      [] k = "nuxt"    -> [has_json |-> TRUE, parses |-> TRUE, deps |-> {"nuxt", "vue"},
                           dev |-> {}, cfg |-> {}]
      [] k = "angular" -> [has_json |-> TRUE, parses |-> TRUE, deps |-> {"@angular/core"},
                           dev |-> {}, cfg |-> {"angular.json"}]
      [] k = "vue"     -> [has_json |-> TRUE, parses |-> TRUE, deps |-> {"vue"},
                           dev |-> {}, cfg |-> {}]
      [] k = "react"   -> [has_json |-> TRUE, parses |-> TRUE, deps |-> {"react"},
                           dev |-> {}, cfg |-> {}]
      [] k = "plain"   -> [has_json |-> TRUE, parses |-> TRUE, deps |-> {"lodash"},
                           dev |-> {}, cfg |-> {}]
      [] k = "broken"  -> [has_json |-> TRUE, parses |-> FALSE, deps |-> {},
                           dev |-> {}, cfg |-> {}]
      [] k = "brokencfg" -> [has_json |-> TRUE, parses |-> FALSE, deps |-> {},
                             dev |-> {}, cfg |-> {"next.config.js"}]
      [] k = "example" -> [has_json |-> TRUE, parses |-> TRUE, deps |-> {"lodash"},
                           dev |-> {}, cfg |-> {"example.config.js"}]
      [] OTHER         -> [has_json |-> FALSE, parses |-> FALSE, deps |-> {},
                           dev |-> {}, cfg |-> {}]

KindOf(path) == IF path \in DOMAIN kind THEN kind[path] ELSE "none"

\* Project::has_package_json
HasPackageJson(path) == path \in dirs /\ Manifest(KindOf(path)).has_json

\* path.join(name).exists() for a config file name
ConfigFileExists(path, name) == path \in dirs /\ name \in Manifest(KindOf(path)).cfg

\* Path::exists / Path::is_dir on a directory of the model
Exists(path) == path \in dirs

\* bytes of the files directly inside a directory
FileBytes(path) ==
    IF Last(path) = "node_modules" THEN 3
    ELSE IF Last(path) = ".next" THEN 2
    ELSE 1

\* calculate_directory_size: 0 for a missing path, else the files below it
CalculateDirectorySize(path) ==
    IF ~Exists(path) THEN 0
    ELSE SeqSum([i \in 1..Cardinality({q \in dirs : IsPrefix(path, q)}) |->
                 FileBytes(SetToSeq({q \in dirs : IsPrefix(path, q)})[i])])

----------------------------------------------------------------------------
(* Project detectors (project/detector.rs, project/analyzers.rs) *)

\* get_all_detectors: the chain in declaration order
Detectors == <<"NextJs", "NuxtJs", "Angular", "Vue", "React", "Default">>

\* PluginRegistry::get_project_detectors after initialize_plugins: the
\* detectors of the one registered plugin, ExamplePlugin
PluginDetectors == <<"Example">>

\* Cleaner::add_detectors as main calls it: the plugin detectors end up in
\* the Cleaner's additional_detectors, a field that no method reads; the
\* Scanner is built from the configuration alone and asks get_all_detectors
AdditionalDetectors == PluginDetectors

NewProject(path) ==
    [path |-> path, project_type |-> "Unknown", package_info |-> NoInfo,
     detected_targets |-> <<>>]

HasDep(info, name) == name \in info.dependencies \/ name \in info.dev_dependencies

\* DefaultDetector::parse_package_json
ParsePackageJson(path) ==
    [present |-> TRUE,
     dependencies |-> Manifest(KindOf(path)).deps,
     dev_dependencies |-> Manifest(KindOf(path)).dev]

\* what a framework detector looks for once package_info is present
FrameworkEvidence(d, project) ==
    LET info == project.package_info
        p == project.path
    IN CASE d = "NextJs"  -> HasDep(info, "next") \/ ConfigFileExists(p, "next.config.js")
         [] d = "NuxtJs"  -> HasDep(info, "nuxt") \/ ConfigFileExists(p, "nuxt.config.js")
                               \/ ConfigFileExists(p, "nuxt.config.ts")
         [] d = "Angular" -> HasDep(info, "@angular/core") \/ ConfigFileExists(p, "angular.json")
         [] d = "Vue"     -> HasDep(info, "vue") \/ HasDep(info, "@vue/cli-service")
                               \/ ConfigFileExists(p, "vue.config.js")
                               \/ ConfigFileExists(p, "vite.config.js")
         [] d = "React"   -> HasDep(info, "react")
         [] OTHER         -> FALSE

\* faulty variant: without package_info a framework detector still looks for
\* its config file
DetectWithoutInfoChecksConfig(d, project) ==
    IF d = "NextJs" /\ ConfigFileExists(project.path, "next.config.js")
    THEN [matched |-> TRUE, project |-> [project EXCEPT !.project_type = d]]
    ELSE [matched |-> FALSE, project |-> project]

\* what a framework detector returns when package_info is None
DetectWithoutInfo(d, project) == [matched |-> FALSE, project |-> project]

\* ExampleDetector::detect: example.config.js exists in the project directory
DetectExample(project) ==
    IF ConfigFileExists(project.path, "example.config.js")
    THEN [matched |-> TRUE, project |-> [project EXCEPT !.project_type = "Unknown"]]
    ELSE [matched |-> FALSE, project |-> project]

\* the directory lists of ExampleDetector
ExampleBuildDirs == <<"example-build", "example-dist">>

ExampleCacheDirs == <<".example-cache">>

ExampleCoverageDirs == <<"example-coverage">>

\* ProjectDetector::detect: the result (Ok(true) or not; an Err counts as no
\* match for both callers) and the project as the call leaves it
Detect(d, project) ==
    IF d = "Example" THEN DetectExample(project)
    ELSE IF d = "Default"
    THEN IF ~HasPackageJson(project.path)
         THEN [matched |-> FALSE, project |-> project]
         ELSE IF ~Manifest(KindOf(project.path)).parses
         THEN [matched |-> FALSE, project |-> project]
         ELSE [matched |-> TRUE,
               project |-> [project EXCEPT !.package_info = ParsePackageJson(project.path),
                                           !.project_type = "NodeJs"]]
    ELSE IF ~project.package_info.present
         THEN DetectWithoutInfo(d, project)
         ELSE IF FrameworkEvidence(d, project)
         THEN [matched |-> TRUE, project |-> [project EXCEPT !.project_type = d]]
         ELSE [matched |-> FALSE, project |-> project]

GetBuildDirs(d) ==
    CASE d = "NextJs"  -> <<".next", "out">>
      [] d = "NuxtJs"  -> <<".nuxt", "dist">>
      [] d = "Angular" -> <<"dist">>
      [] d = "Vue"     -> <<"dist">>
      [] d = "React"   -> <<"build", "dist">>
      [] d = "Example" -> ExampleBuildDirs
      [] OTHER         -> <<"dist", "build", "out">>

GetCacheDirs(d) ==
    CASE d = "NuxtJs"  -> <<".cache">>
      [] d = "Angular" -> <<".angular">>
      [] d = "Default" -> <<".cache">>
      [] d = "Example" -> ExampleCacheDirs
      [] OTHER         -> <<>>

GetCoverageDirs(d) == IF d = "Example" THEN ExampleCoverageDirs ELSE <<"coverage">>

\* get_priority of each detector
Priority(d) ==
    CASE d = "NextJs"  -> 80
      [] d = "NuxtJs"  -> 85
      [] d = "Angular" -> 90
      [] d = "Default" -> 200
      [] d = "Example" -> 50
      [] OTHER         -> 100

----------------------------------------------------------------------------
(* Scanner (scanner.rs) *)

NoDepth == [some |-> FALSE, val |-> 0]

SomeDepth(n) == [some |-> TRUE, val |-> n]

\* fs::read_dir answers Err for a directory that does not exist or that the
\* process may not read (kind "locked")
ReadDirFails(path) == path \notin dirs \/ KindOf(path) = "locked"

\* a directory entry of kind "linkroot" is a symbolic link to the root
IsSymlink(path) == KindOf(path) = "linkroot"

\* the directory a path names once its symbolic links are followed
RECURSIVE Canonical(_)
Canonical(path) ==
    IF \E n \in 1..Len(path) : IsSymlink(SubSeq(path, 1, n))
    THEN LET n == CHOOSE k \in 1..Len(path) :
                     /\ IsSymlink(SubSeq(path, 1, k))
                     /\ \A j \in 1..(k - 1) : ~IsSymlink(SubSeq(path, 1, j))
         IN Canonical(Root \o SubSeq(path, n + 1, Len(path)))
    ELSE path

\* faulty variant: a symbolic link to a directory is taken for a directory
\* and what lies behind it is listed under the link's path (two levels deep)
ChildDirsFollowsLinks(path) ==
    IF Canonical(path) \notin dirs \/ Len(path) > Len(Root) + 1 THEN <<>>
    ELSE SetToSeq({path \o <<Last(q)>> :
                     q \in {r \in dirs : Len(r) = Len(Canonical(path)) + 1
                                          /\ IsPrefix(Canonical(path), r)
                                          /\ Last(r) # "node_modules"}})

\* faulty variant: directories named node_modules are walked like any other
ChildDirsEntersNodeModules(path) ==
    IF ReadDirFails(path) THEN <<>>
    ELSE SetToSeq({q \in dirs : Len(q) = Len(path) + 1 /\ IsPrefix(path, q)
                                /\ ~IsSymlink(q)})

\* the subdirectories read_dir yields, as the sequence the walk pushes; an
\* Err of read_dir is dropped by the if let and nothing is pushed; an entry
\* is pushed when entry.file_type() is a directory, which a symbolic link is
\* not (file_type does not follow links); directories named node_modules
\* are skipped (read_dir's order is the platform's; it only decides the
\* order of the project list)
ChildDirs(path) ==
    IF ReadDirFails(path) THEN <<>>
    ELSE SetToSeq({q \in dirs : Len(q) = Len(path) + 1 /\ IsPrefix(path, q)
                                /\ ~IsSymlink(q)
                                /\ Last(q) # "node_modules"})

\* faulty variant: the depth test is off by one
TooDeepOffByOne(depth) == config.max_depth.some /\ depth >= config.max_depth.val

\* the depth test of find_project_paths: depth > max_depth
TooDeep(depth) == config.max_depth.some /\ depth > config.max_depth.val

\* faulty variant: the walk goes on below a project in every mode
NeverStopsAtProject(path) == FALSE

\* a project directory is not descended into unless recursive is set
StopsAtProject(path) == HasPackageJson(path) /\ ~config.recursive

\* the while loop of find_project_paths over (queue, visited_dirs,
\* project_paths); the result holds project_paths and, for what is said
\* about the walk itself, the visited_dirs it ended with
RECURSIVE Walk(_, _, _)
Walk(queue, visited, found) ==
    IF queue = <<>> THEN [found |-> found, visited |-> visited]
    ELSE LET path == Head(queue).path
             depth == Head(queue).depth
             rest == Tail(queue)
         IN IF path \in visited THEN Walk(rest, visited, found)
            ELSE IF TooDeep(depth)
            THEN Walk(rest, visited \cup {path}, found)
            ELSE IF StopsAtProject(path)
            THEN Walk(rest, visited \cup {path}, Append(found, path))
            ELSE Walk(rest \o [i \in 1..Len(ChildDirs(path)) |->
                                 [path |-> ChildDirs(path)[i], depth |-> depth + 1]],
                      visited \cup {path},
                      IF HasPackageJson(path) THEN Append(found, path) ELSE found)

FindProjectPaths(root) == Walk(<<[path |-> root, depth |-> 0]>>, {}, <<>>).found

\* the visited_dirs of find_project_paths when it returns
VisitedDirs(root) == Walk(<<[path |-> root, depth |-> 0]>>, {}, <<>>).visited

\* globset: a pattern compiles unless it holds an unclosed class
GlobCompiles(pattern) == \A i \in 1..Len(pattern) : pattern[i] # "["

\* Glob::compile_matcher().is_match with the default options: the whole path
\* must match, "*" spans separators, a leading "**" also matches nothing
RECURSIVE GlobMatch(_, _)
GlobMatch(pattern, path) ==
    IF pattern = <<>> THEN path = <<>>
    ELSE IF Head(pattern) = "**"
    THEN \E k \in 0..Len(path) :
            GlobMatch(Tail(pattern), SubSeq(path, k + 1, Len(path)))
    ELSE IF Head(pattern) = "*"
    THEN \E k \in 1..Len(path) :
            GlobMatch(Tail(pattern), SubSeq(path, k + 1, Len(path)))
    ELSE path # <<>> /\ Head(path) = Head(pattern)
         /\ GlobMatch(Tail(pattern), Tail(path))

\* Scanner::is_excluded
IsExcluded(path) ==
    \E i \in 1..Len(config.exclude) :
        GlobCompiles(config.exclude[i]) /\ GlobMatch(config.exclude[i], path)

NoSize == [some |-> FALSE, val |-> 0]

\* the size a target carries: measured only when stats are requested
MeasuredSize(path) ==
    IF config.stats THEN [some |-> TRUE, val |-> CalculateDirectorySize(path)] ELSE NoSize

PlainType(k) == [kind |-> k, name |-> <<>>]

CustomType(name) == [kind |-> "Custom", name |-> name]

MakeTarget(path, type) == [path |-> path, target_type |-> type, size |-> MeasuredSize(path)]

\* the detector determine_clean_targets takes the directory lists from: the
\* first one whose detect on a clone answers Ok(true), else the last one
RECURSIVE FindDetector(_, _)
FindDetector(i, project) ==
    IF i > Len(Detectors) THEN Detectors[Len(Detectors)]
    ELSE IF Detect(Detectors[i], project).matched THEN Detectors[i]
    ELSE FindDetector(i + 1, project)

\* the targets one list of directory names contributes
RECURSIVE DirTargets(_, _, _)
DirTargets(project, names, k) ==
    IF names = <<>> THEN <<>>
    ELSE (IF Exists(Join(project.path, <<Head(names)>>))
          THEN <<MakeTarget(Join(project.path, <<Head(names)>>), PlainType(k))>>
          ELSE <<>>)
         \o DirTargets(project, Tail(names), k)

\* the targets the custom_targets loop contributes
RECURSIVE CustomTargets(_, _)
CustomTargets(project, names) ==
    IF names = <<>> THEN <<>>
    ELSE (IF Exists(Join(project.path, Head(names)))
          THEN <<MakeTarget(Join(project.path, Head(names)), CustomType(Head(names)))>>
          ELSE <<>>)
         \o CustomTargets(project, Tail(names))

\* faulty variant: the custom targets are pushed before the typed ones
CandidateTargetsCustomFirst(project) ==
    LET d == FindDetector(1, project)
    IN CustomTargets(project, config.custom_targets)
       \o DirTargets(project, <<"node_modules">>, "NodeModules")
       \o (IF config.clean_build_dirs
           THEN DirTargets(project, GetBuildDirs(d), "BuildDir") ELSE <<>>)
       \o (IF config.clean_cache_dirs
           THEN DirTargets(project, GetCacheDirs(d), "CacheDir") ELSE <<>>)
       \o (IF config.clean_coverage_dirs
           THEN DirTargets(project, GetCoverageDirs(d), "Coverage") ELSE <<>>)

\* everything determine_clean_targets pushes, before the exclusion filter
CandidateTargets(project) ==
    LET d == FindDetector(1, project)
    IN DirTargets(project, <<"node_modules">>, "NodeModules")
       \o (IF config.clean_build_dirs
           THEN DirTargets(project, GetBuildDirs(d), "BuildDir") ELSE <<>>)
       \o (IF config.clean_cache_dirs
           THEN DirTargets(project, GetCacheDirs(d), "CacheDir") ELSE <<>>)
       \o (IF config.clean_coverage_dirs
           THEN DirTargets(project, GetCoverageDirs(d), "Coverage") ELSE <<>>)
       \o CustomTargets(project, config.custom_targets)

\* faulty variant: the filter lets custom targets through
RECURSIVE FilterSparesCustom(_)
FilterSparesCustom(targets) ==
    IF targets = <<>> THEN <<>>
    ELSE (IF IsExcluded(Head(targets).path) /\ Head(targets).target_type.kind # "Custom"
          THEN <<>> ELSE <<Head(targets)>>)
         \o FilterSparesCustom(Tail(targets))

\* the filter of determine_clean_targets: keep what is_excluded rejects
RECURSIVE FilterExcluded(_)
FilterExcluded(targets) ==
    IF targets = <<>> THEN <<>>
    ELSE (IF IsExcluded(Head(targets).path) THEN <<>> ELSE <<Head(targets)>>)
         \o FilterExcluded(Tail(targets))

\* faulty variant: the lookup runs detect on the project itself, not a clone
DetermineCleanTargetsNoClone(project) ==
    [Detect(FindDetector(1, project), project).project
        EXCEPT !.detected_targets = FilterExcluded(CandidateTargets(project))]

\* determine_clean_targets: the detector lookup works on project.clone(), so
\* only the final assignment to detected_targets reaches the project
DetermineCleanTargets(project) ==
    [project EXCEPT !.detected_targets = FilterExcluded(CandidateTargets(project))]

\* the detector loop of analyze_project: stop at the first Ok(true)
RECURSIVE RunChain(_, _)
RunChain(i, project) ==
    IF i > Len(Detectors) THEN project
    ELSE IF Detect(Detectors[i], project).matched
    THEN Detect(Detectors[i], project).project
    ELSE RunChain(i + 1, project)

AnalyzeProject(path) == DetermineCleanTargets(RunChain(1, NewProject(path)))

\* Scanner::scan passes on an Err of find_project_paths or analyze_projects
\* with the ? operator, but both end in Ok(..) on every path through them: no
\* state of the file system makes scan answer Err
ScanFails(root) == FALSE

\* Scanner::scan: find the project paths, analyze each
ScanResult(root) ==
    LET paths == FindProjectPaths(root)
    IN [i \in 1..Len(paths) |-> AnalyzeProject(paths[i])]


----------------------------------------------------------------------------
(* Cleaner (cleaner.rs) *)

NoAnswer == [read |-> FALSE, line |-> <<>>]

NewResults(n) ==
    [total_projects |-> n, cleaned_projects |-> 0, failed_projects |-> 0,
     total_targets |-> 0, cleaned_targets |-> 0, failed_targets |-> 0,
     total_bytes_removed |-> 0]

\* str::trim: drop the white space at both ends of the line
RECURSIVE TrimStart(_)
TrimStart(s) ==
    IF s # <<>> /\ Head(s) \in {" ", "\n", "\t"} THEN TrimStart(Tail(s)) ELSE s

RECURSIVE TrimEnd(_)
TrimEnd(s) ==
    IF s # <<>> /\ s[Len(s)] \in {" ", "\n", "\t"}
    THEN TrimEnd(SubSeq(s, 1, Len(s) - 1)) ELSE s

Trim(s) == TrimEnd(TrimStart(s))

LowerChar(c) ==
    CASE c = "Y" -> "y"
      [] c = "N" -> "n"
      [] c = "E" -> "e"
      [] c = "S" -> "s"
      [] OTHER   -> c

\* str::to_lowercase
ToLowercase(s) == [i \in 1..Len(s) |-> LowerChar(s[i])]

\* confirm_cleaning: Ok(input.trim().to_lowercase() == "y")
ConfirmCleaning(line) == ToLowercase(Trim(line)) = <<"y">>

\* faulty variant: the confirmation is never asked for
NeverConfirms == FALSE

\* the guard of the confirmation in clean: !force && !dry_run
NeedsConfirmation == ~config.force /\ ~config.dry_run

\* faulty variant: the type switches are not consulted
ShouldCleanIgnoresSwitches(target) == TRUE

\* the should_clean match of clean_project
ShouldClean(target) ==
    CASE target.target_type.kind = "NodeModules" -> config.clean_node_modules
      [] target.target_type.kind = "BuildDir"    -> config.clean_build_dirs
      [] target.target_type.kind = "CacheDir"    -> config.clean_cache_dirs
      [] target.target_type.kind = "Coverage"    -> config.clean_coverage_dirs
      [] OTHER                                   -> TRUE

\* faulty variant: clean_target forgets to look at dry_run
IgnoresDryRun == FALSE

\* the branch clean_target takes: simulate when dry_run is set
TakesDryRunBranch == config.dry_run

\* target.size.unwrap_or(0)
SizeOrZero(size) == IF size.some THEN size.val ELSE 0

\* faulty variant: only what lies below the directory is removed
AfterRemovalKeepsDir(path) == {q \in dirs : ~IsProperDescendant(q, path)}

\* remove_dir_all on success: the directory and everything below it are gone
AfterRemoval(path) == {q \in dirs : ~IsPrefix(path, q)}

\* faulty variant: the byte total is not updated
CountCleanedNoBytes(r, target) == [r EXCEPT !.cleaned_targets = @ + 1]

\* the critical section of a simulated or successful removal
CountCleaned(r, target) ==
    [r EXCEPT !.cleaned_targets = @ + 1,
              !.total_bytes_removed = @ + SizeOrZero(target.size)]

\* faulty variant: a failed removal is counted as a cleaned one
CountFailedAsCleaned(r) == [r EXCEPT !.cleaned_targets = @ + 1]

\* the critical section of a failed removal
CountFailed(r) == [r EXCEPT !.failed_targets = @ + 1]

\* faulty variant: only the targets that will be acted on are counted
CountPlannedEligibleOnly(r, project) ==
    [r EXCEPT !.total_targets = @ + Len(SelectSeq(project.detected_targets, ShouldClean))]

\* faulty variant: the plan's length is stored instead of added
CountPlannedOverwrites(r, project) ==
    [r EXCEPT !.total_targets = Len(project.detected_targets)]

\* the critical section at the start of clean_project
CountPlanned(r, project) ==
    [r EXCEPT !.total_targets = @ + Len(project.detected_targets)]

\* faulty variant: a project with a failed target is counted as failed, not cleaned
CountProjectUnlessFailed(r) ==
    IF r.failed_targets > 0 THEN [r EXCEPT !.failed_projects = @ + 1]
    ELSE [r EXCEPT !.cleaned_projects = @ + 1]

\* the critical section at the end of clean_project
CountProject(r) == [r EXCEPT !.cleaned_projects = @ + 1]

\* the tasks of the parallel map, one per project; each action below is one
\* step of one task, and a step that touches results is one critical section
\* of the Mutex around CleanResults
Tasks == 1..Len(projects)

CurrentTarget(i) == projects[i].detected_targets[idx[i]]

HasCurrent(i) == idx[i] <= Len(projects[i].detected_targets)

Advance(i, outcome) ==
    /\ tstate' = [tstate EXCEPT ![i][idx[i]] = outcome]
    /\ idx' = [idx EXCEPT ![i] = @ + 1]

----------------------------------------------------------------------------
(* Plugin hooks (plugins/registry.rs) and the final summary (cli.rs) *)

\* PluginRegistry::execute_hook: every registered plugin is handed the hook
\* type; with the one plugin of initialize_plugins that is one call
ExecuteHook(hook_type) == Append(hooks, hook_type)

\* bytes in the MB that display_clean_results prints
BytesPerMB == 1048576

Line(text, a, b) == [text |-> text, a |-> a, b |-> b]

\* display_clean_results: the lines it prints, in order
DisplayCleanResults(r) ==
    LET freed_mb == r.total_bytes_removed \div BytesPerMB
    IN <<IF config.dry_run THEN Line("[DRY RUN] - No files were actually deleted", 0, 0)
         ELSE Line("[CLEANING COMPLETED]", 0, 0)>>
       \o <<IF config.dry_run THEN Line("Space that would be freed: {} MB", freed_mb, 0)
            ELSE Line("Space freed: {} MB", freed_mb, 0)>>
       \o (IF config.stats
           THEN <<Line("Projects processed: {}/{}", r.cleaned_projects, r.total_projects),
                  Line("Targets cleaned: {}/{}", r.cleaned_targets, r.total_targets)>>
                \o (IF r.failed_projects > 0 \/ r.failed_targets > 0
                    THEN <<Line("[WARNING] Issues encountered during cleaning:", 0, 0)>>
                         \o (IF r.failed_projects > 0
                             THEN <<Line("  - Failed projects: {}", r.failed_projects, 0)>>
                             ELSE <<>>)
                         \o (IF r.failed_targets > 0
                             THEN <<Line("  - Failed targets: {}", r.failed_targets, 0)>>
                             ELSE <<>>)
                    ELSE <<>>)
           ELSE <<>>)

----------------------------------------------------------------------------
(* Actions *)

\* main: execute_hook(HookType::BeforeCleaning, ..) right after the
\* configuration is loaded, before the scan; an Err of a plugin is only warned
\* about, and ExamplePlugin answers Ok for every hook type
BeforeCleaningHook ==
    /\ phase = "start"
    /\ hooks' = ExecuteHook("BeforeCleaning")
    /\ phase' = "ready"
    /\ UNCHANGED <<config, kind, dirs, projects, results, pc, idx, tstate, answer,
                   dirs0, summary, args, files>>

\* main: scanner.scan(&args.path); on Err main returns the error at once
Scan ==
    /\ phase = "ready"
    /\ projects' = IF ScanFails(Root) THEN <<>> ELSE ScanResult(Root)
    /\ pc' = [i \in 1..Len(projects') |-> "idle"]
    /\ idx' = [i \in 1..Len(projects') |-> 1]
    /\ tstate' = [i \in 1..Len(projects') |->
                    [k \in 1..Len(projects'[i].detected_targets) |-> "Planned"]]
    /\ phase' = IF ScanFails(Root) THEN "aborted" ELSE "scanned"
    /\ UNCHANGED <<config, kind, dirs, results, answer, dirs0, hooks, summary, args,
                   files>>

\* Cleaner::clean up to the point where it blocks on stdin or starts the map
CleanBegin ==
    /\ phase = "scanned"
    /\ results' = NewResults(Len(projects))
    /\ dirs0' = dirs
    /\ phase' = IF projects = <<>> THEN "done"
                ELSE IF NeedsConfirmation THEN "confirm"
                ELSE "running"
    /\ UNCHANGED <<config, kind, dirs, projects, pc, idx, tstate, answer, hooks,
                   summary, args, files>>

\* confirm_cleaning returns with the line the user typed
Confirm(line) ==
    /\ phase = "confirm"
    /\ answer' = [read |-> TRUE, line |-> line]
    /\ phase' = IF ConfirmCleaning(line) THEN "running" ELSE "done"
    /\ UNCHANGED <<config, kind, dirs, projects, results, pc, idx, tstate, dirs0,
                   hooks, summary, args, files>>

\* clean_project: total_targets += detected_targets.len()
BeginProject(i) ==
    /\ phase = "running"
    /\ pc[i] = "idle"
    /\ results' = CountPlanned(results, projects[i])
    /\ pc' = [pc EXCEPT ![i] = "loop"]
    /\ UNCHANGED <<config, kind, dirs, phase, projects, idx, tstate, answer, dirs0,
                   hooks, summary, args, files>>

\* clean_project: a target whose switch is off is passed over
SkipTarget(i) ==
    /\ phase = "running"
    /\ pc[i] = "loop"
    /\ HasCurrent(i)
    /\ ~ShouldClean(CurrentTarget(i))
    /\ Advance(i, "Skipped")
    /\ UNCHANGED <<config, kind, dirs, phase, projects, results, pc, answer, dirs0,
                   hooks, summary, args, files>>

\* clean_target, dry run: count the target, touch nothing
SimulateTarget(i) ==
    /\ phase = "running"
    /\ pc[i] = "loop"
    /\ HasCurrent(i)
    /\ ShouldClean(CurrentTarget(i))
    /\ TakesDryRunBranch
    /\ results' = CountCleaned(results, CurrentTarget(i))
    /\ Advance(i, "Simulated")
    /\ UNCHANGED <<config, kind, dirs, phase, projects, pc, answer, dirs0, hooks,
                   summary, args, files>>

\* clean_target, real run: remove_directory returns Ok or Err, then the
\* counters are updated in a later critical section (no lock is held during
\* the removal). An Err may come from any I/O failure; what remove_dir_all
\* answers for a path that is already gone is the library's choice, so both
\* outcomes are kept there too
RemoveTarget(i) ==
    /\ phase = "running"
    /\ pc[i] = "loop"
    /\ HasCurrent(i)
    /\ ShouldClean(CurrentTarget(i))
    /\ ~TakesDryRunBranch
    /\ \/ /\ dirs' = AfterRemoval(CurrentTarget(i).path)
          /\ pc' = [pc EXCEPT ![i] = "removed"]
       \/ /\ dirs' = dirs
          /\ pc' = [pc EXCEPT ![i] = "failed"]
    /\ UNCHANGED <<config, kind, phase, projects, results, idx, tstate, answer,
                   dirs0, hooks, summary, args, files>>

\* clean_target, Ok arm
RecordCleaned(i) ==
    /\ phase = "running"
    /\ pc[i] = "removed"
    /\ results' = CountCleaned(results, CurrentTarget(i))
    /\ Advance(i, "Cleaned")
    /\ pc' = [pc EXCEPT ![i] = "loop"]
    /\ UNCHANGED <<config, kind, dirs, phase, projects, answer, dirs0, hooks,
                   summary, args, files>>

\* clean_target, Err arm; clean_project logs the error and goes on
RecordFailed(i) ==
    /\ phase = "running"
    /\ pc[i] = "failed"
    /\ results' = CountFailed(results)
    /\ Advance(i, "Failed")
    /\ pc' = [pc EXCEPT ![i] = "loop"]
    /\ UNCHANGED <<config, kind, dirs, phase, projects, answer, dirs0, hooks,
                   summary, args, files>>

\* clean_project after the loop: cleaned_projects += 1
FinishProject(i) ==
    /\ phase = "running"
    /\ pc[i] = "loop"
    /\ ~HasCurrent(i)
    /\ results' = CountProject(results)
    /\ pc' = [pc EXCEPT ![i] = "done"]
    /\ UNCHANGED <<config, kind, dirs, phase, projects, idx, tstate, answer, dirs0,
                   hooks, summary, args, files>>

\* clean: the parallel map has collected every task, the results are unwrapped
CleanEnd ==
    /\ phase = "running"
    /\ \A i \in Tasks : pc[i] = "done"
    /\ phase' = "done"
    /\ UNCHANGED <<config, kind, dirs, projects, results, pc, idx, tstate, answer,
                   dirs0, hooks, summary, args, files>>

\* main after clean returned Ok: display_clean_results, then
\* execute_hook(HookType::AfterCleaning, ..)
Finish ==
    /\ phase = "done"
    /\ summary' = DisplayCleanResults(results)
    /\ hooks' = ExecuteHook("AfterCleaning")
    /\ phase' = "exited"
    /\ UNCHANGED <<config, kind, dirs, projects, results, pc, idx, tstate, answer,
                   dirs0, args, files>>


----------------------------------------------------------------------------
(* Initial states: the configurations and directory trees of the runs *)

Switches == [nm : BOOLEAN, build : BOOLEAN, cache : BOOLEAN, cov : BOOLEAN]

MkConfig(dry, force, sw, stats, custom, exclude, recursive, depth) ==
    [exclude |-> exclude, recursive |-> recursive, force |-> force, dry_run |-> dry,
     stats |-> stats, verbose |-> FALSE,
     clean_node_modules |-> sw.nm, clean_build_dirs |-> sw.build,
     clean_cache_dirs |-> sw.cache, clean_coverage_dirs |-> sw.cov,
     custom_targets |-> custom, max_depth |-> depth]

\* the tree below the root: the two project directories and their subdirectories
Tree(subA, subB) ==
    {Root, ProjA, ProjB} \cup {ProjA \o <<n>> : n \in subA} \cup {ProjB \o <<n>> : n \in subB}

World(ka, kb) == [p \in Candidates |-> IF p = ProjA THEN ka ELSE IF p = ProjB THEN kb ELSE "none"]

\* the root directory exists but may not be read
LockedRoot == [p \in Candidates |-> IF p = Root THEN "locked" ELSE "vue"]

\* the lines a user may type at the prompt
Answers ==
    {<<"y", "\n">>, <<"Y", "\n">>, <<" ", "y", "\n">>, <<"n", "\n">>, <<"\n">>,
     <<"y", "e", "s", "\n">>}

\* custom target names: relative, repeated, coinciding with planned names,
\* empty, and absolute
CustomNames ==
    {<<>>, <<<<"tmp">>>>, <<<<"tmp">>, <<"tmp">>>>, <<<<"node_modules">>>>, <<<<"dist">>>>,
     <<<<>>>>, <<Root>>, <<ProjB \o <<"dist">>>>}

\* exclusion patterns: none, by name at any depth, everything, a whole path,
\* a bare name, and one that does not compile
Excludes ==
    {<<>>, <<<<"**", "node_modules">>>>, <<<<"**", "tmp">>>>, <<<<"*">>>>,
     <<ProjA \o <<"dist">>>>, <<<<"tmp">>>>, <<<<"[">>, <<"**", "dist">>>>}

AllOn == [nm |-> TRUE, build |-> TRUE, cache |-> TRUE, cov |-> TRUE]

AllOff == [nm |-> FALSE, build |-> FALSE, cache |-> FALSE, cov |-> FALSE]

\* a tree with manifests at the root, in project a, below it and inside its
\* node_modules; project b is always a project
Nesting(kr, ka, kn, kv) ==
    [p \in Candidates |->
        IF p = Root THEN kr ELSE IF p = ProjA THEN ka ELSE IF p = Nested THEN kn
        ELSE IF p = Vendored THEN kv ELSE "vue"]

\* the subdirectories project a may hold in the scans
ScanLayouts ==
    {{}, {"node_modules", ".next"}, {"node_modules", "dist", "tmp"},
     {"node_modules", ".next", "dist", "tmp", "coverage", ".cache", "example-build"}}

Depths == {NoDepth} \cup {SomeDepth(n) : n \in 0..MaxDepthBound}

----------------------------------------------------------------------------
(* Configuration loading (config/mod.rs, config/loader.rs, config/schema.rs) *)

\* Config::default()
DefaultConfig == MkConfig(FALSE, FALSE, AllOn, FALSE, <<>>, <<>>, FALSE, NoDepth)

\* a key of a configuration file: absent, or written with a value
NotGiven == [some |-> FALSE, val |-> FALSE]

Given(b) == [some |-> TRUE, val |-> b]

\* a configuration file that sets no key
EmptyKeys ==
    [recursive |-> NotGiven, force |-> NotGiven, dry_run |-> NotGiven, stats |-> NotGiven,
     verbose |-> NotGiven, clean_node_modules |-> NotGiven, clean_build_dirs |-> NotGiven,
     clean_cache_dirs |-> NotGiven, clean_coverage_dirs |-> NotGiven,
     max_depth |-> NoDepth, custom_targets |-> <<>>, exclude |-> <<>>]

NoFile == [exists |-> FALSE, keys |-> EmptyKeys]

FileWith(keys) == [exists |-> TRUE, keys |-> keys]

NoFiles == [user |-> NoFile, project |-> NoFile]

\* serde on a file: a missing bool is false, a missing clean_* switch is
\* true (default_true), a missing Option is None, a missing list is empty
LoadConfigFile(keys) ==
    [recursive |-> keys.recursive.some /\ keys.recursive.val,
     force |-> keys.force.some /\ keys.force.val,
     dry_run |-> keys.dry_run.some /\ keys.dry_run.val,
     stats |-> keys.stats.some /\ keys.stats.val,
     verbose |-> keys.verbose.some /\ keys.verbose.val,
     clean_node_modules |-> keys.clean_node_modules.some => keys.clean_node_modules.val,
     clean_build_dirs |-> keys.clean_build_dirs.some => keys.clean_build_dirs.val,
     clean_cache_dirs |-> keys.clean_cache_dirs.some => keys.clean_cache_dirs.val,
     clean_coverage_dirs |-> keys.clean_coverage_dirs.some => keys.clean_coverage_dirs.val,
     max_depth |-> keys.max_depth,
     custom_targets |-> keys.custom_targets,
     exclude |-> keys.exclude]

\* the custom_targets loop of merge_configs: push what is not yet contained
RECURSIVE PushNew(_, _)
PushNew(list, more) ==
    IF more = <<>> THEN list
    ELSE PushNew(IF Head(more) \in Range(list) THEN list ELSE Append(list, Head(more)),
                 Tail(more))

\* merge_configs(base, override_config); clean_cache_dirs and
\* clean_coverage_dirs are not among the fields it merges
MergeConfigs(base, override_config) ==
    [base EXCEPT
       !.recursive = override_config.recursive \/ @,
       !.force = override_config.force \/ @,
       !.dry_run = override_config.dry_run \/ @,
       !.stats = override_config.stats \/ @,
       !.verbose = override_config.verbose \/ @,
       !.clean_node_modules = override_config.clean_node_modules \/ @,
       !.clean_build_dirs = override_config.clean_build_dirs \/ @,
       !.max_depth = IF override_config.max_depth.some THEN override_config.max_depth ELSE @,
       !.custom_targets = PushNew(@, override_config.custom_targets),
       !.exclude = @ \o override_config.exclude]

NoList == [some |-> FALSE, val |-> <<>>]

SomeList(pieces) == [some |-> TRUE, val |-> pieces]

\* the CliArgs of a command line without any option; include and exclude
\* hold the pieces between the commas of the string
NoArgs ==
    [recursive |-> FALSE, force |-> FALSE, dry_run |-> FALSE, node_modules_only |-> FALSE,
     build |-> FALSE, stats |-> FALSE, verbose |-> FALSE, include |-> NoList,
     exclude |-> NoList]

\* .map(|s| s.trim().to_string()).filter(|s| !s.is_empty()).collect()
RECURSIVE TrimmedPieces(_)
TrimmedPieces(pieces) ==
    IF pieces = <<>> THEN <<>>
    ELSE (IF Trim(Head(pieces)) = <<>> THEN <<>> ELSE <<Trim(Head(pieces))>>)
         \o TrimmedPieces(Tail(pieces))

\* faulty variant: the node_modules_only arm leaves the other switches alone
ApplySwitchesKeepsOthers(c, a) ==
    IF a.node_modules_only THEN [c EXCEPT !.clean_node_modules = TRUE]
    ELSE IF a.build
    THEN [c EXCEPT !.clean_node_modules = FALSE, !.clean_build_dirs = TRUE,
                   !.clean_cache_dirs = FALSE, !.clean_coverage_dirs = FALSE]
    ELSE [c EXCEPT !.clean_node_modules = TRUE, !.clean_build_dirs = TRUE,
                   !.clean_cache_dirs = TRUE, !.clean_coverage_dirs = TRUE]

\* the clean-mode if / else if / else of apply_cli_args
ApplySwitches(c, a) ==
    IF a.node_modules_only
    THEN [c EXCEPT !.clean_node_modules = TRUE, !.clean_build_dirs = FALSE,
                   !.clean_cache_dirs = FALSE, !.clean_coverage_dirs = FALSE]
    ELSE IF a.build
    THEN [c EXCEPT !.clean_node_modules = FALSE, !.clean_build_dirs = TRUE,
                   !.clean_cache_dirs = FALSE, !.clean_coverage_dirs = FALSE]
    ELSE [c EXCEPT !.clean_node_modules = TRUE, !.clean_build_dirs = TRUE,
                   !.clean_cache_dirs = TRUE, !.clean_coverage_dirs = TRUE]

\* apply_cli_args(config, args)
ApplyCliArgs(c, a) ==
    [ApplySwitches(c, a) EXCEPT
       !.recursive = a.recursive \/ @,
       !.force = a.force \/ @,
       !.dry_run = a.dry_run,
       !.stats = a.stats \/ @,
       !.verbose = a.verbose \/ @,
       !.custom_targets = IF a.include.some THEN @ \o TrimmedPieces(a.include.val) ELSE @,
       !.exclude = IF a.exclude.some THEN @ \o TrimmedPieces(a.exclude.val) ELSE @]

\* load_config: merge the user file if there is one
MergeUserConfig ==
    /\ phase = "load_user"
    /\ config' = IF files.user.exists
                 THEN MergeConfigs(config, LoadConfigFile(files.user.keys)) ELSE config
    /\ phase' = "load_project"
    /\ UNCHANGED <<kind, dirs, projects, results, pc, idx, tstate, answer, dirs0, hooks,
                   summary, args, files>>

\* load_config: merge the project file if there is one
MergeProjectConfig ==
    /\ phase = "load_project"
    /\ config' = IF files.project.exists
                 THEN MergeConfigs(config, LoadConfigFile(files.project.keys)) ELSE config
    /\ phase' = "apply_cli"
    /\ UNCHANGED <<kind, dirs, projects, results, pc, idx, tstate, answer, dirs0, hooks,
                   summary, args, files>>

\* load_config: config = apply_cli_args(config, args)
ApplyCli ==
    /\ phase = "apply_cli"
    /\ config' = ApplyCliArgs(config, args)
    /\ phase' = "loaded"
    /\ UNCHANGED <<kind, dirs, projects, results, pc, idx, tstate, answer, dirs0, hooks,
                   summary, args, files>>

\* the files a user may have written
ConfigFiles ==
    {NoFile,
     FileWith(EmptyKeys),
     FileWith([EmptyKeys EXCEPT !.dry_run = Given(TRUE)]),
     FileWith([EmptyKeys EXCEPT !.recursive = Given(TRUE), !.max_depth = SomeDepth(1),
                                !.custom_targets = <<<<"t">>>>]),
     FileWith([EmptyKeys EXCEPT !.recursive = Given(FALSE), !.force = Given(TRUE),
                                !.max_depth = SomeDepth(0),
                                !.custom_targets = <<<<"t">>, <<"u">>>>,
                                !.exclude = <<<<"x">>>>]),
     FileWith([EmptyKeys EXCEPT !.clean_node_modules = Given(FALSE),
                                !.clean_cache_dirs = Given(FALSE), !.stats = Given(TRUE)]),
     FileWith([EmptyKeys EXCEPT !.clean_build_dirs = Given(FALSE),
                                !.clean_coverage_dirs = Given(FALSE),
                                !.verbose = Given(TRUE)])}

\* the command lines: every combination of four flags, and lines with the
\* other options
CommandLines ==
    {[NoArgs EXCEPT !.recursive = r, !.dry_run = d, !.node_modules_only = n, !.build = b] :
        r \in BOOLEAN, d \in BOOLEAN, n \in BOOLEAN, b \in BOOLEAN}
    \cup {[NoArgs EXCEPT !.force = TRUE, !.stats = TRUE, !.verbose = TRUE],
          [NoArgs EXCEPT !.include = SomeList(<<<<" ", "t">>, <<>>, <<"v", " ">>>>),
                         !.exclude = SomeList(<<<<"x">>, <<" ">>>>)]}

\* the configurations apply_cli_args may be handed when called on its own
AnyConfigs ==
    {MkConfig(dry, force, sw, FALSE, <<>>, <<>>, FALSE, NoDepth) :
        dry \in BOOLEAN, force \in BOOLEAN, sw \in Switches}

----------------------------------------------------------------------------
(* The specifications *)

\* the runs of the whole program: scan, then clean
Init ==
    /\ config \in {MkConfig(dry, force, sw, stats, custom, <<>>, FALSE, NoDepth) :
                     dry \in BOOLEAN, force \in BOOLEAN, sw \in Switches,
                     stats \in BOOLEAN,
                     custom \in {<<>>, <<<<"tmp">>>>, <<<<"node_modules">>>>}}
    /\ \/ /\ kind \in {World("next", "vue"), World("next", "none"), World("none", "vue"),
                       World("locked", "vue"), World("none", "none"), LockedRoot}
          /\ dirs = Tree({"node_modules", ".next", "tmp"}, {"dist", "coverage"})
       \/ /\ kind = World("next", "vue")
          /\ dirs = {}
    /\ phase = "start"
    /\ projects = <<>>
    /\ results = NewResults(0)
    /\ pc = <<>>
    /\ idx = <<>>
    /\ tstate = <<>>
    /\ answer = NoAnswer
    /\ dirs0 = dirs
    /\ hooks = <<>>
    /\ summary = <<>>
    /\ args = NoArgs
    /\ files = NoFiles

Next ==
    \/ BeforeCleaningHook
    \/ Scan
    \/ CleanBegin
    \/ \E line \in Answers : Confirm(line)
    \/ \E i \in Tasks : BeginProject(i)
    \/ \E i \in Tasks : SkipTarget(i)
    \/ \E i \in Tasks : SimulateTarget(i)
    \/ \E i \in Tasks : RemoveTarget(i)
    \/ \E i \in Tasks : RecordCleaned(i)
    \/ \E i \in Tasks : RecordFailed(i)
    \/ \E i \in Tasks : FinishProject(i)
    \/ CleanEnd
    \/ Finish

Spec == Init /\ [][Next]_vars

\* the scans alone, over a wider range of configurations and trees
ScanKinds ==
    {"next", "nextdev", "nextcfg", "nuxt", "angular", "vue", "react", "plain", "broken",
     "brokencfg", "locked", "example"}

\* what is the same at the start of every scan
ScanStart ==
    /\ phase = "ready"
    /\ projects = <<>>
    /\ results = NewResults(0)
    /\ pc = <<>>
    /\ idx = <<>>
    /\ tstate = <<>>
    /\ answer = NoAnswer
    /\ dirs0 = dirs
    /\ hooks = <<"BeforeCleaning">>
    /\ summary = <<>>
    /\ args = NoArgs
    /\ files = NoFiles

ScanInit ==
    /\ config \in {MkConfig(TRUE, TRUE, sw, stats, custom, exclude, FALSE, NoDepth) :
                     sw \in Switches, stats \in BOOLEAN, custom \in CustomNames,
                     exclude \in Excludes}
                 \cup {MkConfig(TRUE, TRUE, AllOn, FALSE, <<>>, <<>>, recursive, depth) :
                     recursive \in BOOLEAN, depth \in Depths}
    /\ kind \in {World(ka, "vue") : ka \in ScanKinds}
    /\ dirs \in {Tree(subA, {"dist"}) : subA \in ScanLayouts}
    /\ ScanStart

\* the scans of trees with nested manifests, a manifest inside node_modules,
\* an unreadable directory and a symbolic link back to the root
WalkInit ==
    /\ config \in {MkConfig(TRUE, TRUE, sw, FALSE, <<>>, <<>>, recursive, depth) :
                     sw \in {AllOn, AllOff}, recursive \in BOOLEAN, depth \in Depths}
    /\ kind \in {Nesting(kr, ka, kn, kv) :
                   kr \in {"none", "plain"}, ka \in {"none", "plain", "locked", "linkroot"},
                   kn \in {"none", "plain"}, kv \in {"none", "plain"}}
    /\ dirs = IF kind[ProjA] = "linkroot" THEN Tree({}, {"dist"})
              ELSE Tree({"sub", "node_modules"}, {"dist"})
    /\ ScanStart

ScanSpec == (ScanInit \/ WalkInit) /\ [][Scan]_vars

\* what load_config and apply_cli_args never look at
NothingScanned ==
    /\ kind = World("none", "none")
    /\ dirs = {}
    /\ projects = <<>>
    /\ results = NewResults(0)
    /\ pc = <<>>
    /\ idx = <<>>
    /\ tstate = <<>>
    /\ answer = NoAnswer
    /\ dirs0 = dirs
    /\ hooks = <<>>
    /\ summary = <<>>

\* load_config from its first line: Config::default(), then the files and
\* the command line
ConfigInit ==
    /\ phase = "load_user"
    /\ config = DefaultConfig
    /\ files \in {[user |-> u, project |-> p] : u \in ConfigFiles, p \in ConfigFiles}
    /\ args \in CommandLines
    /\ NothingScanned

ConfigNext ==
    \/ MergeUserConfig
    \/ MergeProjectConfig
    \/ ApplyCli

ConfigSpec == ConfigInit /\ [][ConfigNext]_vars

\* apply_cli_args called on its own, on any configuration
ApplyInit ==
    /\ phase = "apply_cli"
    /\ config \in AnyConfigs
    /\ files = NoFiles
    /\ args \in CommandLines
    /\ NothingScanned

ApplySpec == ApplyInit /\ [][ApplyCli]_vars




----------------------------------------------------------------------------
(* Claims *)

AllCountersZero ==
    /\ results.cleaned_projects = 0
    /\ results.total_targets = 0
    /\ results.cleaned_targets = 0
    /\ results.failed_targets = 0
    /\ results.total_bytes_removed = 0

\* the run is one in which clean has to ask: neither force nor dry_run
Asks == ~config.force /\ ~config.dry_run

\* clean ran past the preview and was not cancelled
PassedConfirmation ==
    /\ projects # <<>>
    /\ phase \in {"running", "done"}
    /\ (Asks => answer.read /\ ToLowercase(Trim(answer.line)) = <<"y">>)

\* C1: with dry_run set, every directory that existed when clean was called
\* (and before) still exists, in every state up to and including the return
C1_DryRunRemovesNothing == config.dry_run => dirs0 \subseteq dirs

\* C1 witness: a dry run that went through eligible targets has returned
C1_Witness ==
    /\ config.dry_run
    /\ phase = "done"
    /\ results.cleaned_targets >= 2
    /\ ~config.force

\* what the user typed, without the line terminator read_line keeps
Typed(line) ==
    IF line # <<>> /\ line[Len(line)] = "\n" THEN SubSeq(line, 1, Len(line) - 1) ELSE line

\* C2 as stated: without force and dry_run nothing is removed before the
\* answer, and every answer other than the single character y cancels the
\* clean with nothing removed and all counters 0
C2_AnyOtherAnswerDeclines ==
    (Asks /\ projects # <<>> /\ phase \notin {"start", "scanned"}) =>
        /\ ~answer.read => phase = "confirm" /\ dirs = dirs0 /\ AllCountersZero
        /\ (answer.read /\ Typed(answer.line) # <<"y">>) =>
              phase \in {"done", "exited"} /\ dirs = dirs0 /\ AllCountersZero

\* C2 amended: without force and dry_run nothing is removed before the
\* answer, and every answer that is not y once trimmed and lower-cased
\* cancels the clean with nothing removed and all counters 0
C2_DeclineHasNoEffect ==
    (Asks /\ projects # <<>> /\ phase \notin {"start", "scanned"}) =>
        /\ ~answer.read => phase = "confirm" /\ dirs = dirs0 /\ AllCountersZero
        /\ (answer.read /\ ToLowercase(Trim(answer.line)) # <<"y">>) =>
              phase \in {"done", "exited"} /\ dirs = dirs0 /\ AllCountersZero

\* C2 witness: the user was asked, answered something else, and clean returned
C2_Witness ==
    /\ ~config.force /\ ~config.dry_run
    /\ phase = "done"
    /\ answer.read
    /\ answer.line = <<"y", "e", "s", "\n">>
    /\ \E i \in Tasks : Len(projects[i].detected_targets) >= 2


\* the type a detector records on a match
TypeOfDetector(d) == IF d = "Default" THEN "NodeJs" ELSE d

\* the first detector of the chain, in priority order, that the manifest and
\* config files of a directory satisfy
RECURSIVE FirstSatisfied(_, _)
FirstSatisfied(i, path) ==
    IF i >= Len(Detectors) THEN "Default"
    ELSE IF FrameworkEvidence(Detectors[i],
                [NewProject(path) EXCEPT !.package_info = ParsePackageJson(path)])
    THEN Detectors[i]
    ELSE FirstSatisfied(i + 1, path)

\* the directory names a list of targets of one type was built from
TargetPathsOfType(project, k) ==
    {project.detected_targets[j].path :
        j \in {n \in 1..Len(project.detected_targets) :
                 project.detected_targets[n].target_type.kind = k}}

\* C3: a project whose manifest parses and satisfies a framework detector (and
\* so the generic one too) gets its project_type and its build directories
\* from the first such detector in priority order: next gives NextJs, vue Vue
C3_FrameworkDetectorWins ==
    phase = "scanned" =>
        \A i \in 1..Len(projects) :
            LET p == projects[i]
                d == FirstSatisfied(1, p.path)
            IN (Manifest(KindOf(p.path)).parses /\ d # "Default") =>
                  /\ p.project_type = TypeOfDetector(d)
                  /\ TargetPathsOfType(p, "BuildDir") \subseteq
                        {Join(p.path, <<n>>) : n \in Range(GetBuildDirs(d))}

\* C4: no target of a plan has a path that a configured exclusion pattern
\* matches, whatever the target's type
C4_ExcludedNeverPlanned ==
    phase = "scanned" =>
        \A i \in 1..Len(projects) :
            \A j \in 1..Len(projects[i].detected_targets) :
                \A e \in 1..Len(config.exclude) :
                    ~(GlobCompiles(config.exclude[e])
                      /\ GlobMatch(config.exclude[e], projects[i].detected_targets[j].path))

\* C4 witness: a scan in which an existing custom target and an existing
\* node_modules were both dropped by a pattern while another target stayed
C4_Witness ==
    /\ phase = "scanned"
    /\ \E i \in 1..Len(projects) :
          /\ \E c \in Range(CandidateTargets(projects[i])) :
                c.target_type.kind = "Custom" /\ IsExcluded(c.path)
          /\ projects[i].detected_targets # <<>>

\* C5: no plan holds two entries with the same path
C5_NoDuplicatePaths ==
    phase = "scanned" =>
        \A i \in 1..Len(projects) :
            \A j, k \in 1..Len(projects[i].detected_targets) :
                j # k => projects[i].detected_targets[j].path
                            # projects[i].detected_targets[k].path

\* C6: every target of a plan lies strictly below its project's directory
C6_TargetsBelowProject ==
    phase = "scanned" =>
        \A i \in 1..Len(projects) :
            \A j \in 1..Len(projects[i].detected_targets) :
                IsProperDescendant(projects[i].detected_targets[j].path, projects[i].path)


\* the (project, target) index pairs of all plans
AllTargets ==
    UNION {{<<i, j>> : j \in 1..Len(projects[i].detected_targets)} : i \in Tasks}

TargetAt(x) == projects[x[1]].detected_targets[x[2]]

\* eligible in the words of the claims: the type's switch is on, or Custom
Eligible(t) ==
    \/ t.target_type.kind = "Custom"
    \/ t.target_type.kind = "NodeModules" /\ config.clean_node_modules
    \/ t.target_type.kind = "BuildDir" /\ config.clean_build_dirs
    \/ t.target_type.kind = "CacheDir" /\ config.clean_cache_dirs
    \/ t.target_type.kind = "Coverage" /\ config.clean_coverage_dirs

InState(S) == {x \in AllTargets : tstate[x[1]][x[2]] \in S}

KnownBytes(t) == IF t.size.some THEN t.size.val ELSE 0

RECURSIVE BytesOf(_)
BytesOf(S) ==
    IF S = {} THEN 0
    ELSE LET x == CHOOSE y \in S : TRUE
         IN KnownBytes(TargetAt(x)) + BytesOf(S \ {x})

\* C7: a real clean in which exactly one removal failed ends with
\* failed_targets = 1, every other eligible target removed and counted, and
\* the failed target's project (like every project) counted as cleaned
C7_OneFailureIsContained ==
    (phase = "done" /\ PassedConfirmation /\ ~config.dry_run
       /\ Cardinality(InState({"Failed"})) = 1) =>
        /\ results.failed_targets = 1
        /\ \A x \in AllTargets :
              (Eligible(TargetAt(x)) /\ tstate[x[1]][x[2]] # "Failed") =>
                  tstate[x[1]][x[2]] = "Cleaned" /\ TargetAt(x).path \notin dirs
        /\ results.cleaned_targets =
              Cardinality({x \in AllTargets : Eligible(TargetAt(x))}) - 1
        /\ \A x \in InState({"Failed"}) : pc[x[1]] = "done"
        /\ results.cleaned_projects = Len(projects)

\* C7 witness: the first of three eligible targets of a project failed, the
\* two after it were removed, and the other project was cleaned as well
C7_Witness ==
    /\ phase = "done"
    /\ ~config.dry_run
    /\ Len(projects) = 2
    /\ Len(tstate[1]) = 3
    /\ tstate[1] = <<"Failed", "Cleaned", "Cleaned">>
    /\ \E j \in 1..Len(tstate[2]) : tstate[2][j] = "Cleaned"
    /\ results.failed_targets = 1

\* C8: cleaned_projects counts exactly the project tasks that have finished,
\* a task finishes only when none of its targets is still Planned, whatever
\* number of them failed, and a clean that passed the confirmation returns
\* with cleaned_projects = total_projects
C8_ProjectCountedOnceAtEnd ==
    phase \in {"running", "done"} =>
        /\ results.cleaned_projects = Cardinality({i \in Tasks : pc[i] = "done"})
        /\ \A i \in Tasks :
              pc[i] = "done" =>
                  \A j \in 1..Len(tstate[i]) :
                      /\ tstate[i][j] # "Planned"
                      /\ Eligible(projects[i].detected_targets[j]) =>
                            tstate[i][j] \in {"Simulated", "Cleaned", "Failed"}
        /\ (phase = "done" /\ PassedConfirmation) =>
              results.cleaned_projects = results.total_projects

\* C8 witness: a clean returned after two targets of one project failed
C8_Witness ==
    /\ phase = "done"
    /\ \E i \in Tasks : Cardinality({j \in 1..Len(tstate[i]) : tstate[i][j] = "Failed"}) >= 2
    /\ results.cleaned_projects = 2

\* C9: a dry run returns with cleaned_targets = the number of eligible
\* targets, failed_targets = 0 and total_bytes_removed = the sum of their
\* sizes, an unknown size counting 0
C9_DryRunTotals ==
    (config.dry_run /\ phase = "done" /\ projects # <<>>) =>
        /\ results.cleaned_targets = Cardinality({x \in AllTargets : Eligible(TargetAt(x))})
        /\ results.failed_targets = 0
        /\ results.total_bytes_removed = BytesOf({x \in AllTargets : Eligible(TargetAt(x))})

\* C9 witness: a dry run with measured sizes returned, with a target skipped
C9_Witness ==
    /\ config.dry_run
    /\ phase = "done"
    /\ config.stats
    /\ results.total_bytes_removed >= 4
    /\ InState({"Skipped"}) # {}
    /\ Cardinality(InState({"Simulated"})) >= 3

\* C10: whatever the interleaving of the project tasks, the shared counters
\* agree with what the tasks did: total_targets is the sum of the plans of the
\* tasks that have started, cleaned_targets the number of Simulated or Cleaned
\* targets, failed_targets the number of Failed ones, total_bytes_removed the
\* known sizes of the Simulated or Cleaned ones; at the return every task has
\* started, so the totals are those of the whole list
C10_NoLostUpdate ==
    phase \in {"running", "done"} =>
        /\ results.total_targets =
              Cardinality({x \in AllTargets : pc[x[1]] # "idle"})
        /\ results.cleaned_targets = Cardinality(InState({"Simulated", "Cleaned"}))
        /\ results.failed_targets = Cardinality(InState({"Failed"}))
        /\ results.total_bytes_removed = BytesOf(InState({"Simulated", "Cleaned"}))
        /\ (phase = "done" /\ PassedConfirmation) =>
              results.total_targets = Cardinality(AllTargets)

\* C10 witness: both tasks are between a removal and its counter update
C10_Witness ==
    /\ phase = "running"
    /\ Len(projects) = 2
    /\ pc[1] = "removed"
    /\ pc[2] = "failed"
    /\ results.cleaned_targets >= 1
    /\ config.stats


\* the place of a target type in the order determine_clean_targets pushes
PhaseRank(k) ==
    CASE k = "NodeModules" -> 1
      [] k = "BuildDir"    -> 2
      [] k = "CacheDir"    -> 3
      [] k = "Coverage"    -> 4
      [] OTHER             -> 5

\* C11: every plan is ordered node_modules, build, cache, coverage, custom;
\* within a project the targets that have left Planned form a prefix of the
\* plan, and a removal in progress is on the first target still Planned, so
\* an attempt starts only after the previous target reached a terminal state
C11_PlanOrderAndSequence ==
    phase # "start" =>
        \A i \in Tasks :
            LET plan == projects[i].detected_targets
            IN /\ \A j, k \in 1..Len(plan) :
                     j < k => PhaseRank(plan[j].target_type.kind)
                                 <= PhaseRank(plan[k].target_type.kind)
               /\ \A j, k \in 1..Len(plan) :
                     (j < k /\ tstate[i][k] # "Planned") => tstate[i][j] # "Planned"
               /\ pc[i] \in {"removed", "failed"} =>
                     /\ idx[i] \in 1..Len(plan)
                     /\ tstate[i][idx[i]] = "Planned"
                     /\ \A j \in 1..(idx[i] - 1) : tstate[i][j] # "Planned"

\* C11 witness: a plan of three types is half way through, its second target
\* being removed, while the other project's task has also passed its first
C11_Witness ==
    /\ phase = "running"
    /\ Len(projects) = 2
    /\ {projects[1].detected_targets[j].target_type.kind :
           j \in 1..Len(projects[1].detected_targets)}
          = {"NodeModules", "BuildDir", "Custom"}
    /\ Len(tstate[2]) = 2
    /\ pc[1] = "removed"
    /\ idx[1] = 2
    /\ tstate[1][1] = "Cleaned"
    /\ tstate[2][1] = "Failed"
    /\ tstate[2][2] = "Planned"


\* C12: when the plan is empty (no project, or no project with a target)
\* clean returns without asking for confirmation, also when neither force
\* nor dry_run is set, and without removing anything
C12_EmptyPlanNeverPrompts ==
    (phase \notin {"start", "scanned"} /\ AllTargets = {}) =>
        /\ phase # "confirm"
        /\ ~answer.read
        /\ dirs = dirs0


\* C13: when the root does not exist or cannot be read the scan fails and
\* main stops before the Cleaner is called; an unreadable directory below
\* the root is skipped and the projects beside it are still found
C13_UnscannableRootAborts ==
    /\ (Root \notin dirs0 \/ kind[Root] = "locked") => phase \in {"start", "ready", "aborted"}
    /\ (phase = "scanned" /\ kind[ProjA] = "locked" /\ kind[ProjB] = "vue") =>
          \E i \in 1..Len(projects) : projects[i].path = ProjB


\* the plugin detector matches the project and no detector of the chain
\* with a higher priority (a smaller number) does
PluginDetectorWins(project, d) ==
    /\ Detect(d, NewProject(project.path)).matched
    /\ \A b \in Range(Detectors) : Priority(b) < Priority(d) => ~Detect(b, project).matched

\* C14: for a project the plugin detector matches, and no detector of higher
\* priority does, the plan is built from the plugin detector's lists: its
\* build, cache and coverage targets carry the plugin's directory names, and an
\* existing, not excluded directory of the plugin's build list is planned
\* when the build switch is on
C14_PluginDetectorUsed ==
    phase = "scanned" =>
        \A i \in 1..Len(projects) :
            \A e \in 1..Len(PluginDetectors) :
                LET p == projects[i]
                    d == PluginDetectors[e]
                    Named(list) == {Join(p.path, <<n>>) : n \in Range(list)}
                IN PluginDetectorWins(p, d) =>
                      /\ TargetPathsOfType(p, "BuildDir") \subseteq Named(GetBuildDirs(d))
                      /\ TargetPathsOfType(p, "CacheDir") \subseteq Named(GetCacheDirs(d))
                      /\ TargetPathsOfType(p, "Coverage") \subseteq Named(GetCoverageDirs(d))
                      /\ \A q \in Named(GetBuildDirs(d)) :
                            (config.clean_build_dirs /\ q \in dirs /\ ~IsExcluded(q)) =>
                                q \in TargetPathsOfType(p, "BuildDir")


\* how often a hook type was executed
Count(seq, x) == Cardinality({n \in 1..Len(seq) : seq[n] = x})

\* C15: a run that cleaned its projects has executed the before-batch hook
\* once, the before-project hook once per project, the after-project hook
\* once per project and the after-batch hook once, the batch hooks first and
\* last
C15_HooksAtFourPoints ==
    (phase = "exited" /\ projects # <<>> /\ \A i \in Tasks : pc[i] = "done") =>
        /\ Count(hooks, "BeforeCleaning") = 1
        /\ Count(hooks, "BeforeCleanProject") = Len(projects)
        /\ Count(hooks, "AfterCleanProject") = Len(projects)
        /\ Count(hooks, "AfterCleaning") = 1
        /\ hooks[1] = "BeforeCleaning"
        /\ hooks[Len(hooks)] = "AfterCleaning"

\* C17: whenever a target failed, the summary printed at the end carries a
\* line with the failed count, next to the cleaned count, whatever stats is
C17_FailuresAlwaysShown ==
    (phase = "exited" /\ results.failed_targets > 0) =>
        /\ \E n \in 1..Len(summary) :
              summary[n].text = "  - Failed targets: {}" /\ summary[n].a = results.failed_targets
        /\ \E n \in 1..Len(summary) :
              summary[n].text = "Targets cleaned: {}/{}" /\ summary[n].a = results.cleaned_targets


\* the plan a scan of the same root with the same configuration would make
\* of the directories as they are now
EligibleAtRescan ==
    {<<i, j>> \in UNION {{<<i, j>> : j \in 1..Len(ScanResult(Root)[i].detected_targets)} :
                            i \in 1..Len(ScanResult(Root))} :
        Eligible(ScanResult(Root)[i].detected_targets[j])}

SwitchesOf(c) ==
    <<c.clean_node_modules, c.clean_build_dirs, c.clean_cache_dirs, c.clean_coverage_dirs>>

\* C18: whatever configuration apply_cli_args is handed, with
\* node_modules_only set it returns clean_node_modules = true and the three
\* other switches false: so it is for the result about to be returned from
\* every input, and for the configuration once it has been returned
C18_NodeModulesOnly ==
    /\ (phase = "apply_cli" /\ args.node_modules_only) =>
          SwitchesOf(ApplyCliArgs(config, args)) = <<TRUE, FALSE, FALSE, FALSE>>
    /\ (phase = "loaded" /\ args.node_modules_only) =>
          SwitchesOf(config) = <<TRUE, FALSE, FALSE, FALSE>>

\* C18 witness: apply_cli_args has returned for a command line with both
\* node_modules_only and build, on a configuration that was not the default
C18_Witness ==
    /\ phase = "loaded"
    /\ args.node_modules_only
    /\ args.build
    /\ config.force
    /\ ~args.force
    /\ SwitchesOf(config) = <<TRUE, FALSE, FALSE, FALSE>>


\* the value the configuration files give an option: the project file's if
\* it writes the key, else the user file's if it writes the key, else the
\* default
FromFiles(o, default) ==
    IF files.project.exists /\ files.project.keys[o].some THEN files.project.keys[o].val
    ELSE IF files.user.exists /\ files.user.keys[o].some THEN files.user.keys[o].val
    ELSE default

\* the value of a flag by precedence: set on the command line, else the files
FlagByPrecedence(o) == IF args[o] THEN TRUE ELSE FromFiles(o, FALSE)

\* the value of a clean switch by precedence: the command line's clean mode
\* if one is given, else the files
SwitchByPrecedence(o) ==
    IF args.node_modules_only THEN o = "clean_node_modules"
    ELSE IF args.build THEN o = "clean_build_dirs"
    ELSE FromFiles(o, TRUE)

\* C19: the configuration load_config returns holds, for every option, the
\* value of the highest-priority source that gives it: command line, then
\* project file, then user file, then default; an option the command line
\* does not give keeps the files' value, dry_run and the clean switches too
C19_PrecedenceResolves ==
    phase = "loaded" =>
        /\ \A o \in {"recursive", "force", "dry_run", "stats", "verbose"} :
              config[o] = FlagByPrecedence(o)
        /\ \A o \in {"clean_node_modules", "clean_build_dirs", "clean_cache_dirs",
                     "clean_coverage_dirs"} :
              config[o] = SwitchByPrecedence(o)
        /\ config.max_depth =
              (IF files.project.exists /\ files.project.keys.max_depth.some
               THEN files.project.keys.max_depth
               ELSE IF files.user.exists THEN files.user.keys.max_depth ELSE NoDepth)


\* the targets of the plans with the state each is in
StateOf(x) == tstate[x[1]][x[2]]

\* what holds of the target states in every state of a clean
TerminalStatesFit ==
    phase \in {"running", "done", "exited"} =>
        \A x \in AllTargets :
            /\ StateOf(x) \in {"Planned", "Skipped", "Simulated", "Cleaned", "Failed"}
            /\ StateOf(x) = "Skipped" => ~Eligible(TargetAt(x))
            /\ StateOf(x) \in {"Simulated", "Cleaned", "Failed"} => Eligible(TargetAt(x))
            /\ StateOf(x) = "Simulated" => config.dry_run
            /\ StateOf(x) \in {"Cleaned", "Failed"} => ~config.dry_run
            /\ (phase = "done" /\ PassedConfirmation) =>
                  /\ StateOf(x) # "Planned"
                  /\ ~Eligible(TargetAt(x)) => StateOf(x) = "Skipped"

\* what holds of every step of a clean: a target that has left Planned keeps
\* its state, and it becomes Cleaned only after its removal succeeded, Failed
\* only after its removal returned an error
TerminalStatesStay ==
    phase = "running" =>
        \A i \in Tasks :
            \A j \in 1..Len(tstate[i]) :
                /\ tstate[i][j] # "Planned" => tstate'[i][j] = tstate[i][j]
                /\ (tstate[i][j] = "Planned" /\ tstate'[i][j] = "Cleaned") =>
                      pc[i] = "removed" /\ idx[i] = j
                /\ (tstate[i][j] = "Planned" /\ tstate'[i][j] = "Failed") =>
                      pc[i] = "failed" /\ idx[i] = j
                /\ (tstate[i][j] = "Planned" /\ tstate'[i][j] \in {"Skipped", "Simulated"}) =>
                      pc[i] = "loop" /\ idx[i] = j

\* C20: in a clean that passes the confirmation every target of every plan
\* ends in exactly one terminal state, which it never leaves again: Skipped
\* if and only if its type switch is off and it is not Custom, otherwise
\* Simulated under dry_run, Cleaned after a removal that succeeded, Failed
\* after a removal that returned an error
C20_OneTerminalState == []TerminalStatesFit /\ [][TerminalStatesStay]_vars

\* C20 witness: a real clean returned with one target passed over, one
\* removed and one failed in the same project
C20_Witness ==
    /\ phase = "done"
    /\ ~config.dry_run
    /\ ~config.force
    /\ Len(projects) = 2
    /\ tstate[1] = <<"Skipped", "Cleaned", "Failed">>
    /\ \A j \in 1..Len(tstate[2]) : tstate[2][j] = "Cleaned"

\* the paths of the projects a scan returned
ProjectPaths == {projects[i].path : i \in 1..Len(projects)}

\* C21: the walk handles every directory once and ends on every finite tree,
\* a tree with a symbolic link back to the root included: what it visited are
\* directories of the tree reached without passing a link, no two of them
\* name the same directory, and no project path is returned twice
C21_EachDirectoryOnce ==
    /\ VisitedDirs(Root) \subseteq {Root} \cup dirs
    /\ \A p \in VisitedDirs(Root) : \A n \in 1..Len(p) : ~IsSymlink(SubSeq(p, 1, n))
    /\ \A p, q \in VisitedDirs(Root) : Canonical(p) = Canonical(q) => p = q
    /\ phase = "scanned" =>
          /\ \A i, j \in 1..Len(projects) : projects[i].path = projects[j].path => i = j
          /\ \A p, q \in ProjectPaths : Canonical(p) = Canonical(q) => p = q

C21_Witness ==
    /\ phase = "scanned"
    /\ KindOf(ProjA) = "linkroot"
    /\ Canonical(ProjA \o <<"a">>) = Root
    /\ config.recursive
    /\ ProjectPaths = {Root, ProjB}
    /\ VisitedDirs(Root) = {Root, ProjB, ProjB \o <<"dist">>}

\* a path with a component named node_modules below the root
ThroughNodeModules(p) == \E n \in (Len(Root) + 1)..Len(p) : p[n] = "node_modules"

\* C22: the walk never enters a directory named node_modules, whatever the
\* recursive and clean switches are: no visited and no returned path has a
\* node_modules component below the root, even when a manifest lies there
C22_NeverEntersNodeModules ==
    /\ \A p \in VisitedDirs(Root) : ~ThroughNodeModules(p)
    /\ \A p \in Range(FindProjectPaths(Root)) : ~ThroughNodeModules(p)
    /\ phase = "scanned" => \A p \in ProjectPaths : ~ThroughNodeModules(p)

C22_Witness ==
    /\ phase = "scanned"
    /\ Vendored \in dirs
    /\ Manifest(KindOf(Vendored)).has_json
    /\ config.recursive
    /\ ~config.clean_node_modules
    /\ ~config.max_depth.some
    /\ ProjA \in ProjectPaths
    /\ Nested \in ProjectPaths
    /\ Vendored \notin ProjectPaths

\* hops from the root to a directory below it
DepthOf(p) == Len(p) - Len(Root)

\* the directories strictly between the root (included) and p (excluded)
Above(p) == {SubSeq(p, 1, n) : n \in Len(Root)..(Len(p) - 1)}

\* a directory that can be listed and holds no manifest
PassableWithoutManifest(q) ==
    q \in dirs /\ kind[q] \notin {"locked", "linkroot"} /\ ~Manifest(kind[q]).has_json

\* p is a directory of the tree, within the depth limit, that is reached
\* from the root through listable manifest-free directories and no
\* directory named node_modules
ReachedBelowNoManifest(p) ==
    /\ p \in dirs /\ IsPrefix(Root, p)
    /\ kind[p] # "linkroot"
    /\ ~ThroughNodeModules(p)
    /\ \A q \in Above(p) : PassableWithoutManifest(q)
    /\ config.max_depth.some => DepthOf(p) <= config.max_depth.val

\* C23: with recursive = false the walk does not go below a directory that
\* holds a manifest but still explores its siblings: no returned path is a
\* proper descendant of another, and every manifest directory reached through
\* manifest-free directories not named node_modules, within the depth limit,
\* is returned
C23_StopsAtFirstManifest ==
    (phase = "scanned" /\ ~config.recursive) =>
        /\ \A p, q \in ProjectPaths : ~IsProperDescendant(p, q)
        /\ \A p \in Candidates :
              (Manifest(kind[p]).has_json /\ ReachedBelowNoManifest(p)) => p \in ProjectPaths

C23_Witness ==
    /\ phase = "scanned"
    /\ ~config.recursive
    /\ ~config.max_depth.some
    /\ Manifest(kind[ProjA]).has_json
    /\ Manifest(kind[Nested]).has_json
    /\ Nested \in dirs
    /\ ProjectPaths = {ProjA, ProjB}

\* a directory read_dir can list
Listable(q) == q \in dirs /\ kind[q] \notin {"locked", "linkroot"}

\* p is a directory the walk would come to if no depth limit were set
ReachedWithoutLimit(p) ==
    /\ p \in dirs /\ IsPrefix(Root, p)
    /\ kind[p] # "linkroot"
    /\ ~ThroughNodeModules(p)
    /\ \A q \in Above(p) : Listable(q) /\ (config.recursive \/ ~Manifest(kind[q]).has_json)

\* C24: with max_depth = m and depth counted from 0 at the root, a directory
\* the walk comes to is looked at for a manifest exactly when its depth is at
\* most m: a project at depth m is returned, none deeper is, and with m = 0
\* only the root can be returned
C24_DepthLimitInclusive ==
    (phase = "scanned" /\ config.max_depth.some) =>
        /\ \A p \in ProjectPaths : DepthOf(p) <= config.max_depth.val
        /\ \A p \in Candidates :
              (Manifest(kind[p]).has_json /\ ReachedWithoutLimit(p)) =>
                  (p \in ProjectPaths <=> DepthOf(p) <= config.max_depth.val)
        /\ config.max_depth.val = 0 => ProjectPaths \subseteq {Root}

C24_Witness ==
    /\ phase = "scanned"
    /\ config.max_depth.some
    /\ config.recursive
    /\ \E p \in ProjectPaths : DepthOf(p) = config.max_depth.val /\ DepthOf(p) > 0
    /\ \E p \in Candidates :
          /\ Manifest(kind[p]).has_json /\ ReachedWithoutLimit(p)
          /\ DepthOf(p) = config.max_depth.val + 1
          /\ p \notin ProjectPaths

\* a project directory whose package.json exists but is not readable JSON
ManifestUnusable(path) == Manifest(kind[path]).has_json /\ ~Manifest(kind[path]).parses

\* C25: a manifest that exists but cannot be parsed makes no detector match;
\* the scan goes on, the project is returned with project_type Unknown and no
\* package_info, and its plan is built from the generic detector's lists
C25_UnparsableManifestKept ==
    phase = "scanned" =>
        /\ \A q \in Candidates :
              (ManifestUnusable(q) /\ ReachedBelowNoManifest(q) /\ ~config.recursive) =>
                  q \in ProjectPaths
        /\ \A i \in 1..Len(projects) :
              LET p == projects[i]
                  Named(list) == {Join(p.path, <<n>>) : n \in Range(list)}
                  Planned(list) == {q \in Named(list) : q \in dirs /\ ~IsExcluded(q)}
              IN ManifestUnusable(p.path) =>
                    /\ p.project_type = "Unknown"
                    /\ ~p.package_info.present
                    /\ TargetPathsOfType(p, "BuildDir") =
                          IF config.clean_build_dirs
                          THEN Planned(<<"dist", "build", "out">>) ELSE {}
                    /\ TargetPathsOfType(p, "CacheDir") =
                          IF config.clean_cache_dirs THEN Planned(<<".cache">>) ELSE {}
                    /\ TargetPathsOfType(p, "Coverage") =
                          IF config.clean_coverage_dirs THEN Planned(<<"coverage">>) ELSE {}

C25_Witness ==
    /\ phase = "scanned"
    /\ kind[ProjA] = "brokencfg"
    /\ ProjA \o <<".next">> \in dirs
    /\ \E i, j \in 1..Len(projects) :
          /\ projects[i].path = ProjA
          /\ projects[i].project_type = "Unknown"
          /\ projects[j].path = ProjB
          /\ projects[j].package_info.present
          /\ TargetPathsOfType(projects[i], "BuildDir") = {ProjA \o <<"dist">>}
          /\ TargetPathsOfType(projects[i], "CacheDir") = {ProjA \o <<".cache">>}

\* a path no configured exclusion pattern matches
NotExcluded(q) ==
    \A e \in 1..Len(config.exclude) :
        ~(GlobCompiles(config.exclude[e]) /\ GlobMatch(config.exclude[e], q))

\* the switch that governs a typed target
SwitchOf(k) ==
    CASE k = "NodeModules" -> config.clean_node_modules
      [] k = "BuildDir"    -> config.clean_build_dirs
      [] k = "CacheDir"    -> config.clean_cache_dirs
      [] k = "Coverage"    -> config.clean_coverage_dirs
      [] OTHER             -> TRUE

\* C26: an existing, not excluded node_modules of a project is planned even
\* when clean_node_modules is off, and is then still on disk whatever the
\* clean does; a build, cache or coverage target is planned only with its
\* switch on and its directory present; an existing, not excluded custom
\* target is planned whatever the switches are
C26_PlanFollowsSwitches ==
    phase \in {"scanned", "confirm", "running", "done", "exited"} =>
        \A i \in 1..Len(projects) :
            LET p == projects[i]
                nm == p.path \o <<"node_modules">>
            IN /\ (nm \in dirs0 /\ NotExcluded(nm)) =>
                      /\ nm \in TargetPathsOfType(p, "NodeModules")
                      /\ ~config.clean_node_modules => nm \in dirs
               /\ \A j \in 1..Len(p.detected_targets) :
                     p.detected_targets[j].target_type.kind \in {"BuildDir", "CacheDir", "Coverage"}
                        => /\ SwitchOf(p.detected_targets[j].target_type.kind)
                           /\ p.detected_targets[j].path \in dirs0
               /\ \A c \in 1..Len(config.custom_targets) :
                     LET q == Join(p.path, config.custom_targets[c])
                     IN (q \in dirs0 /\ NotExcluded(q)) => q \in TargetPathsOfType(p, "Custom")

\* the project as analyze_project hands it to determine_clean_targets
AfterFirstPass(path) == RunChain(1, NewProject(path))

\* the fields of a project other than its plan
Identity(project) ==
    [path |-> project.path, project_type |-> project.project_type,
     package_info |-> project.package_info]

\* C27: determine_clean_targets changes nothing of a project but its
\* detected_targets: path, project_type and package_info are the same before
\* and after the call, for every project directory the walk finds
C27_OnlyPlanChanges ==
    /\ phase = "ready" =>
          \A q \in Range(FindProjectPaths(Root)) :
              Identity(DetermineCleanTargets(AfterFirstPass(q))) = Identity(AfterFirstPass(q))
    /\ phase = "scanned" =>
          \A i \in 1..Len(projects) :
              Identity(projects[i]) = Identity(AfterFirstPass(projects[i].path))

C27_Witness ==
    /\ phase = "scanned"
    /\ \E i \in 1..Len(projects) :
          /\ FindDetector(1, AfterFirstPass(projects[i].path)) = "NextJs"
          /\ Detect("NextJs", AfterFirstPass(projects[i].path)).project.project_type = "NextJs"
          /\ projects[i].project_type = "NodeJs"
          /\ projects[i].package_info.present
          /\ projects[i].detected_targets # <<>>
          /\ AfterFirstPass(projects[i].path).detected_targets = <<>>

\* the detector that records a given project_type
DetectorOfType(t) == IF t = "NodeJs" THEN "Default" ELSE t

\* C28: the detector whose directory lists a plan is built from is the one
\* that set the project's type in the first pass of analyze_project: the
\* second lookup selects it again, and the build, cache and coverage targets
\* carry names of its lists only
C28_SameDetectorBothPasses ==
    phase = "scanned" =>
        \A i \in 1..Len(projects) :
            LET p == projects[i]
                d == DetectorOfType(p.project_type)
                Named(list) == {Join(p.path, <<n>>) : n \in Range(list)}
            IN p.project_type # "Unknown" =>
                  /\ FindDetector(1, p) = d
                  /\ TargetPathsOfType(p, "BuildDir") \subseteq Named(GetBuildDirs(d))
                  /\ TargetPathsOfType(p, "CacheDir") \subseteq Named(GetCacheDirs(d))
                  /\ TargetPathsOfType(p, "Coverage") \subseteq Named(GetCoverageDirs(d))

\* one path is the other, or lies above or below it
Overlap(a, b) == IsPrefix(a, b) \/ IsPrefix(b, a)

\* what a project's task may remove, and the project directory itself
ClaimedPaths(p) == {p.path} \cup {p.detected_targets[j].path : j \in 1..Len(p.detected_targets)}

\* C29: for two distinct projects of one scan result no target path of one
\* is equal to, above or below a target path or the project path of the
\* other, so that two project tasks never work on overlapping directories
C29_PlansDisjoint ==
    phase = "scanned" =>
        \A i, j \in 1..Len(projects) :
            i # j =>
                \A k \in 1..Len(projects[i].detected_targets) :
                    \A u \in ClaimedPaths(projects[j]) :
                        ~Overlap(projects[i].detected_targets[k].path, u)

\* C30: at every point of a clean cleaned_targets + failed_targets is at
\* most total_targets, cleaned_projects at most total_projects, and
\* failed_projects is 0; when the clean has returned, total_targets is
\* cleaned_targets + failed_targets + the number of targets passed over
\* because their switch is off
C30_CountersConsistent ==
    /\ results.cleaned_targets + results.failed_targets <= results.total_targets
    /\ results.cleaned_projects <= results.total_projects
    /\ results.failed_projects = 0
    /\ phase \in {"done", "exited"} =>
          results.total_targets = results.cleaned_targets + results.failed_targets
                                     + Cardinality(InState({"Skipped"}))

C30_Witness ==
    /\ phase = "done"
    /\ ~config.dry_run
    /\ results.total_projects = 2
    /\ results.cleaned_projects = 2
    /\ results.cleaned_targets >= 2
    /\ results.failed_targets >= 1
    /\ Cardinality(InState({"Skipped"})) = 1
    /\ results.total_targets >= 4


====
